---- MODULE Spec2Model ----
(***************************************************************************)
(* Query-resolution pipeline of the RAG-Lab backend (server/api.py) and    *)
(* the local generation backend (server/models/local/local_llm.py,         *)
(* server/local_llm.py).  Text is modelled as sequences of one-character   *)
(* strings, with Python's 0-based indices in the string helpers.           *)
(***************************************************************************)
EXTENDS Integers, Sequences, FiniteSets, TLC

\* ------------------------------------------------------------------ text

Max(S) == CHOOSE x \in S : \A y \in S : y <= x

\* n copies of the character c
Fill(n, c) == [i \in 1..n |-> c]

\* s[a:b] of Python for 0 <= a
Slice(s, a, b) ==
    LET hi == IF b > Len(s) THEN Len(s) ELSE b
    IN  IF hi <= a THEN <<>> ELSE SubSeq(s, a + 1, hi)

\* s[a:] of Python for 0 <= a
From(s, a) == Slice(s, a, Len(s))

\* the 0-based indices at which sub occurs in s
Occurrences(s, sub) ==
    {i \in 0..(Len(s) - Len(sub)) : SubSeq(s, i + 1, i + Len(sub)) = sub}

\* str.rfind: the highest index of sub in s, -1 when absent
RFind(s, sub) ==
    IF Occurrences(s, sub) = {} THEN -1 ELSE Max(Occurrences(s, sub))

\* str.startswith
StartsWith(s, pre) == Len(pre) <= Len(s) /\ SubSeq(s, 1, Len(pre)) = pre

\* sub in s
Contains(s, sub) == Occurrences(s, sub) # {}

MarkerQuestion ==
    <<"Q", "u", "e", "s", "t", "i", "o", "n", ":">>
MarkerQ ==
    <<"Q", ":">>
Ellipsis ==
    <<".", ".", ".">>

\* ------------------------------------------------- prompt truncation

\* default max_input_length of LocalChatModel
DefaultMaxInputLength == 400

\* the "minimum context" threshold of the truncation step
MinContext == 50

\* the last occurrence of either marker, whichever it belongs to
QuestionStartRightmostEither(prompt) ==
    Max({RFind(prompt, MarkerQuestion), RFind(prompt, MarkerQ)})

\* the for-loop over question_markers: the first marker of the list that
\* occurs at all decides, at its last occurrence (rfind, then break)
QuestionStart(prompt) ==
    IF RFind(prompt, MarkerQuestion) # -1
        THEN RFind(prompt, MarkerQuestion)
        ELSE RFind(prompt, MarkerQ)

\* a truncation that always cuts at max_input_length
BudgetSimpleOnly(prompt, maxLen) ==
    IF Len(prompt) > maxLen THEN Slice(prompt, 0, maxLen) \o Ellipsis ELSE prompt

\* a truncation that already cuts a prompt of exactly max_input_length
BudgetCutsAtLimit(prompt, maxLen) ==
    IF Len(prompt) >= maxLen
        THEN LET question_start == QuestionStart(prompt)
                 context_budget == maxLen - (Len(prompt) - question_start)
             IN  IF question_start # -1 /\ question_start > maxLen \div 2
                     THEN IF context_budget > MinContext
                              THEN Slice(prompt, 0, context_budget) \o Ellipsis
                                       \o From(prompt, question_start)
                              ELSE From(prompt, question_start)
                     ELSE Slice(prompt, 0, maxLen) \o Ellipsis
        ELSE prompt

\* a truncation that keeps context from a budget of exactly the minimum
BudgetMinContextInclusive(prompt, maxLen) ==
    IF Len(prompt) > maxLen
        THEN LET question_start == QuestionStart(prompt)
                 context_budget == maxLen - (Len(prompt) - question_start)
             IN  IF question_start # -1 /\ question_start > maxLen \div 2
                     THEN IF context_budget >= MinContext
                              THEN Slice(prompt, 0, context_budget) \o Ellipsis
                                       \o From(prompt, question_start)
                              ELSE From(prompt, question_start)
                     ELSE Slice(prompt, 0, maxLen) \o Ellipsis
        ELSE prompt

\* a truncation that keeps the whole context in front of the question
BudgetKeepsWholeContext(prompt, maxLen) ==
    IF Len(prompt) > maxLen
        THEN LET question_start == QuestionStart(prompt)
                 context_budget == maxLen - (Len(prompt) - question_start)
             IN  IF question_start # -1 /\ question_start > maxLen \div 2
                     THEN IF context_budget > MinContext
                              THEN Slice(prompt, 0, question_start) \o Ellipsis
                                       \o From(prompt, question_start)
                              ELSE From(prompt, question_start)
                     ELSE Slice(prompt, 0, maxLen) \o Ellipsis
        ELSE prompt

\* the truncation step of LocalChatModel.invoke
Budget(prompt, maxLen) ==
    IF Len(prompt) > maxLen
        THEN LET question_start == QuestionStart(prompt)
                 context_budget == maxLen - (Len(prompt) - question_start)
             IN  IF question_start # -1 /\ question_start > maxLen \div 2
                     THEN IF context_budget > MinContext
                              THEN Slice(prompt, 0, context_budget) \o Ellipsis
                                       \o From(prompt, question_start)
                              ELSE From(prompt, question_start)
                     ELSE Slice(prompt, 0, maxLen) \o Ellipsis
        ELSE prompt

\* ------------------------------------------------------ resolver texts

\* req.model.startswith("local-")
LocalPrefix ==
    <<"l", "o", "c", "a", "l", "-">>

\* the backend identifiers a request may carry
ModelGpt4oMini ==
    <<"g", "p", "t", "-", "4", "o", "-", "m", "i", "n", "i">>

ModelLocalGpt2 ==
    <<"l", "o", "c", "a", "l", "-", "g", "p", "t", "2">>

ModelLocalDistilGpt2 ==
    <<"l", "o", "c", "a", "l", "-", "d", "i", "s", "t", "i", "l", "g", "p", "t", "2">>

ModelLocalOther ==
    <<"l", "o", "c", "a", "l", "-", "l", "l", "a", "m", "a">>

\* the bare-question prompt of the two direct tiers
BarePrefix ==
    <<"P", "l", "e", "a", "s", "e", " ", "a", "n", "s", "w", "e", "r", " ", "t", "h", "i", "s", " ", "q", "u", "e", "s", "t", "i", "o", "n", ":", " ">>

\* the context prompt handed to a local model
LocalCtxHead ==
    <<"B", "a", "s", "e", "d", " ", "o", "n", " ", "t", "h", "e", " ", "f", "o", "l", "l", "o", "w", "i", "n", "g", " ", "c", "o", "n", "t", "e", "x", "t", ",", " ", "a", "n", "s", "w", "e", "r", " ", "t", "h", "e", " ", "q", "u", "e", "s", "t", "i", "o", "n", " ", "c", "o", "n", "c", "i", "s", "e", "l", "y", ":", "\n", "\n", "C", "o", "n", "t", "e", "x", "t", ":", "\n">>

LocalCtxMid ==
    <<"\n", "\n", "Q", "u", "e", "s", "t", "i", "o", "n", ":", " ">>

LocalCtxTail ==
    <<"\n", "\n", "A", "n", "s", "w", "e", "r", ":">>

\* the context prompt handed to the hosted service
HostedCtxHead ==
    <<"U", "s", "e", " ", "t", "h", "e", " ", "f", "o", "l", "l", "o", "w", "i", "n", "g", " ", "c", "o", "n", "t", "e", "x", "t", " ", "t", "o", " ", "a", "n", "s", "w", "e", "r", ":", "\n", "\n">>

HostedCtxMid ==
    <<"\n", "\n", "Q", ":", " ">>

HostedCtxTail ==
    <<"\n", "A", ":">>

BlankLine ==
    <<"\n", "\n">>

\* the texts of the error answers
ErrLocalPrefix ==
    <<"E", "r", "r", "o", "r", " ", "w", "i", "t", "h", " ", "l", "o", "c", "a", "l", " ", "m", "o", "d", "e", "l", ":", " ">>

ErrHostedPrefix ==
    <<"E", "r", "r", "o", "r", " ", "c", "a", "l", "l", "i", "n", "g", " ", "O", "p", "e", "n", "A", "I", ":", " ">>

ErrSearchPrefix ==
    <<"E", "r", "r", "o", "r", " ", "s", "e", "a", "r", "c", "h", "i", "n", "g", " ", "v", "e", "c", "t", "o", "r", " ", "d", "a", "t", "a", "b", "a", "s", "e", ":", " ">>

ErrGenPrefix ==
    <<"E", "r", "r", "o", "r", ":", " ">>

ErrSimplePrefix ==
    <<"L", "o", "c", "a", "l", " ", "m", "o", "d", "e", "l", " ", "e", "r", "r", "o", "r", ":", " ">>

ErrUnknownPrefix ==
    <<"U", "n", "k", "n", "o", "w", "n", " ", "l", "o", "c", "a", "l", " ", "m", "o", "d", "e", "l", ":", " ">>

ErrorWord ==
    <<"E", "r", "r", "o", "r">>

\* ------------------------------------------------- response clean-up

\* the characters str.strip() and str.split() treat as whitespace
Whitespace == {" ", "\n", "\t", "\r"}

RECURSIVE LStrip(_)
LStrip(s) ==
    IF s # <<>> /\ Head(s) \in Whitespace THEN LStrip(Tail(s)) ELSE s

RECURSIVE RStrip(_)
RStrip(s) ==
    IF s # <<>> /\ s[Len(s)] \in Whitespace
        THEN RStrip(SubSeq(s, 1, Len(s) - 1))
        ELSE s

\* str.strip()
Strip(s) == RStrip(LStrip(s))

\* str.find: the lowest index of sub in s, -1 when absent
Find(s, sub) ==
    IF Occurrences(s, sub) = {} THEN -1
    ELSE CHOOSE i \in Occurrences(s, sub) : \A j \in Occurrences(s, sub) : i <= j

RECURSIVE Split(_, _)
\* str.split(sep) for a non-empty separator
Split(s, sep) ==
    IF Find(s, sep) = -1
        THEN <<s>>
        ELSE <<Slice(s, 0, Find(s, sep))>> \o Split(From(s, Find(s, sep) + Len(sep)), sep)

\* str.count(sub): non-overlapping occurrences
Count(s, sub) == Len(Split(s, sub)) - 1

RECURSIVE Join(_, _)
\* sep.join(parts)
Join(sep, parts) ==
    IF parts = <<>> THEN <<>>
    ELSE IF Len(parts) = 1 THEN parts[1]
    ELSE parts[1] \o sep \o Join(sep, Tail(parts))

\* len(s.split()): the number of maximal runs of non-whitespace
WordCount(s) ==
    Cardinality({i \in 1..Len(s) :
        s[i] \notin Whitespace /\ (i = 1 \/ s[i - 1] \in Whitespace)})

\* the length over which _clean_response cuts at a sentence boundary
MaxResponseLength == 400

RECURSIVE DedupLinesSkipsRepeats(_, _, _)
\* a loop over lines that drops a repeated line and goes on
DedupLinesSkipsRepeats(lines, unique_lines, seen_lines) ==
    IF lines = <<>> THEN unique_lines
    ELSE LET line == Strip(Head(lines))
         IN  IF line # <<>> /\ line \notin seen_lines
                 THEN DedupLinesSkipsRepeats(Tail(lines), Append(unique_lines, line),
                                             seen_lines \cup {line})
                 ELSE DedupLinesSkipsRepeats(Tail(lines), unique_lines, seen_lines)

RECURSIVE DedupLines(_, _, _)
\* the loop over lines: keep a line the first time it is seen, break at the
\* first line seen before
DedupLines(lines, unique_lines, seen_lines) ==
    IF lines = <<>> THEN unique_lines
    ELSE LET line == Strip(Head(lines))
         IN  IF line # <<>> /\ line \notin seen_lines
                 THEN DedupLines(Tail(lines), Append(unique_lines, line),
                                 seen_lines \cup {line})
             ELSE IF line # <<>> /\ Len(unique_lines) > 0
                 THEN unique_lines
             ELSE DedupLines(Tail(lines), unique_lines, seen_lines)

\* the loop over question_patterns: the first pattern that occurs more than
\* once cuts the response to parts[0]
RemoveRepeatedQuestion(response) ==
    IF Count(response, MarkerQuestion) > 1
        THEN Strip(Split(response, MarkerQuestion)[1])
    ELSE IF Count(response, MarkerQ) > 1
        THEN Strip(Split(response, MarkerQ)[1])
    ELSE response

\* a cut that keeps the first sentence alone
CutAtFirstSentence(response) ==
    LET sentences == Split(response, <<".", " ">>)
    IN  IF Len(response) > MaxResponseLength /\ Len(sentences) > 1
            THEN sentences[1] \o <<".">>
            ELSE response

\* the cut at a sentence boundary of a response that is too long
CutAtSentence(response) ==
    LET sentences == Split(response, <<".", " ">>)
    IN  IF Len(response) > MaxResponseLength /\ Len(sentences) > 1
            THEN Join(<<".", " ">>, SubSeq(sentences, 1, Len(sentences) - 1)) \o <<".">>
            ELSE response

\* a removal that also cuts at a mark exactly 40% into the text
DropIncompleteTailInclusive(response) ==
    LET last_punct == Max({RFind(response, <<".">>), RFind(response, <<"!">>),
                           RFind(response, <<"?">>)})
    IN  IF /\ response # <<>>
           /\ response[Len(response)] \notin {".", "!", "?", ":"}
           /\ WordCount(response) > 3
           /\ 10 * last_punct >= 4 * Len(response)
            THEN Slice(response, 0, last_punct + 1)
            ELSE response

\* the removal of an incomplete sentence at the end
DropIncompleteTail(response) ==
    LET last_punct == Max({RFind(response, <<".">>), RFind(response, <<"!">>),
                           RFind(response, <<"?">>)})
    IN  IF /\ response # <<>>
           /\ response[Len(response)] \notin {".", "!", "?", ":"}
           /\ WordCount(response) > 3
           /\ 10 * last_punct > 4 * Len(response)
            THEN Slice(response, 0, last_punct + 1)
            ELSE response

\* the strip and the removal of repeated lines that open _clean_response
DedupStage(response) ==
    Join(<<"\n">>, DedupLines(Split(Strip(response), <<"\n">>), <<>>, {}))

\* LocalChatModel._clean_response
CleanResponse(response) ==
    DropIncompleteTail(CutAtSentence(RemoveRepeatedQuestion(DedupStage(response))))

\* full_response[len(prompt_text):].strip()
Extracted(prompt_text, full_response) ==
    Strip(From(full_response, Len(prompt_text)))

\* the decoded output and the text after each step that follows it: the
\* extraction, the removal of repeated lines, the removal of a repeated
\* question, the cut at a sentence boundary, the removal of an incomplete tail
CleanTrace(prompt_text, full_response) ==
    LET extracted == Extracted(prompt_text, full_response)
        deduped   == DedupStage(extracted)
        single    == RemoveRepeatedQuestion(deduped)
        cut       == CutAtSentence(single)
    IN  <<full_response, extracted, deduped, single, cut, DropIncompleteTail(cut)>>

\* ------------------------------------------------------------- bounds

\* clients that hold a request open at the same time
NumClients == 2

\* requests served in one run
MaxRequests == 2

\* the largest result count k a request asks for
MaxK == 2

\* the step and the number of steps of the padding of the prompts the
\* truncation step is tried on
PadStep == 30

MaxPads == 5

\* a max_input_length small enough for short prompts to exceed it
SmallMaxInputLength == 60

\* the length of the long question and of the long chunk the prompt
\* templates are tried on
LongQuestionLen == 400

LongChunkLen == 400

\* the most lines, the most sentences and the length of a sentence of the
\* outputs the clean-up is tried on
MaxLines == 4

MaxSentences == 3

SentenceLen == 150

\* the longest first word and the most words after it of the outputs the
\* removal of an incomplete tail is tried on
MaxHead == 7

MaxTailWords == 4

\* ------------------------------------------------------------- inputs

Clients == 1..NumClients

Questions == {<<"W", "h", "y", "?">>}

Models == {ModelGpt4oMini, ModelLocalGpt2, ModelLocalDistilGpt2, ModelLocalOther}

\* str(e) of an exception raised by a collaborator
Messages == {<<"b", "o", "o", "m">>}

\* what the index holds: page_content and metadata (a set of key/value pairs)
Chunks ==
    { [page_content |-> <<"a", "b">>, metadata |-> {<<"source", "doc1.pdf">>}],
      [page_content |-> <<"c">>,      metadata |-> {<<"source", "doc2.pdf">>}],
      [page_content |-> <<"d">>,      metadata |-> {}] }

\* the results of similarity_search(question, k): at most k chunks, in the
\* order the index ranks them
SearchResults(k) == UNION {[1..n -> Chunks] : n \in 0..k}

\* the text of a hosted completion
HostedOutputs == {<<"O", "k", ".">>}

\* what a local model writes after the prompt
Continuations == {<<" ", "Y", "e", "s", ".">>}

\* the decoded output of a local model for a prompt: the prompt followed by
\* the continuation, or the continuation alone
RawOutputs(prompt_text) ==
    {prompt_text \o c : c \in Continuations} \cup Continuations

\* the module the name local_llm resolves to when api.py is imported
LocalModules == {"local_llm", "models.local.local_llm"}

\* -------------------------------------------------------------- state

VARIABLES
    db,            \* api.db: the retrieval-index handle, "None" until built
    local_models,  \* api.local_models: identifier -> instance
    localModule,   \* the module that provides create_local_chat_model
    built,         \* identifier -> instances create_local_chat_model returned
    raised,        \* the constructions that have raised: of the index handle, of which models
    loop,          \* the client whose query_rag call the event loop runs, or 0
    issued,        \* requests accepted so far
    pc,            \* client -> position of its query_rag call
    req,           \* client -> QueryRequest
    vector_db,     \* client -> what get_vector_db() returned
    docs,          \* client -> what similarity_search returned
    tier,          \* client -> the path taken: 0 none, 1 no index, 2 empty, 3 search raised, 4 context
    prompt,        \* client -> the prompt handed to the backend
    llm,           \* client -> the local instance in use, 0 when none
    cacheHit,      \* client -> get_local_model found the instance in local_models
    response,      \* client -> the QueryResponse being returned
    failure,       \* client -> the collaborator call that raised, "none" when none did
    searchCalls,   \* client -> similarity_search calls of this query
    backendCalls,  \* client -> backend invocations of this query
    bPc,           \* position of the stand-alone run of the truncation step
    bPrompt,       \* its prompt
    bMax,          \* its max_input_length
    bOut,          \* the prompt it hands to the tokenizer
    bStart,        \* its question_start, -1 when no marker was looked for or found
    bQuestion,     \* the question its prompt was built from, when a template built it
    sPc,           \* position of the stand-alone run of the output clean-up
    sPrompt,       \* its prompt_text
    sTrace         \* its decoded output, followed by the text after each step

shared == <<db, local_models, localModule, built, raised, loop, issued>>

locals == <<pc, req, vector_db, docs, tier, prompt, llm, cacheHit, response, failure,
            searchCalls, backendCalls>>

budgetVars == <<bPc, bPrompt, bMax, bOut, bStart, bQuestion>>

cleanVars == <<sPc, sPrompt, sTrace>>

pureVars == <<budgetVars, cleanVars>>

vars == <<shared, locals, budgetVars, cleanVars>>

NoRequest == [question |-> <<>>, k |-> 0, model |-> <<>>]

NoResponse == [answer |-> <<>>, sources |-> <<>>]

\* the identifiers get_local_model knows
KnownLocalModels == {ModelLocalGpt2, ModelLocalDistilGpt2}

\* ---------------------------------------------------------- resolver

\* req.model.startswith("local-")
IsLocal(model) == StartsWith(model, LocalPrefix)

\* f"Please answer this question: {req.question}"
BarePrompt(question) == BarePrefix \o question

LocalContextPrompt(context, question) ==
    LocalCtxHead \o context \o LocalCtxMid \o question \o LocalCtxTail

HostedContextPrompt(context, question) ==
    HostedCtxHead \o context \o HostedCtxMid \o question \o HostedCtxTail

\* "\n\n".join([d.page_content for d in docs])
Context(found) ==
    Join(BlankLine, [i \in 1..Len(found) |-> found[i].page_content])

\* dict.get(key, default)
MetaGet(metadata, key, default) ==
    IF \E p \in metadata : p[1] = key
        THEN (CHOOSE p \in metadata : p[1] = key)[2]
        ELSE default

\* the labels in the opposite order
SourcesReversed(found) ==
    [i \in 1..Len(found) |->
        MetaGet(found[Len(found) + 1 - i].metadata, "source", "Unknown")]

\* [d.metadata.get("source", "Unknown") for d in docs]
Sources(found) ==
    [i \in 1..Len(found) |-> MetaGet(found[i].metadata, "source", "Unknown")]

\* the two direct labels with the tiers exchanged
DirectLabelTiersSwapped(t, local) ==
    IF t = 1
        THEN IF local THEN "Direct local model response (no relevant documents)"
                      ELSE "Direct OpenAI response (no relevant documents)"
        ELSE IF local THEN "Direct local model response (no vector database)"
                      ELSE "Direct OpenAI response (no vector database)"

\* one label text for both direct tiers
DirectLabelOneText(t, local) ==
    IF local THEN "Direct local model response (no vector database)"
             ELSE "Direct OpenAI response (no vector database)"

\* the source label of a direct answer
DirectLabel(t, local) ==
    IF t = 1
        THEN IF local THEN "Direct local model response (no vector database)"
                      ELSE "Direct OpenAI response (no vector database)"
        ELSE IF local THEN "Direct local model response (no relevant documents)"
                      ELSE "Direct OpenAI response (no relevant documents)"

\* the QueryResponse of an except branch
ErrorResponse(prefix, message) ==
    [answer |-> prefix \o message, sources |-> <<"Error">>]

\* the QueryResponse of a backend that returned content
AnswerResponse(t, local, found, content) ==
    [answer  |-> content,
     sources |-> IF t = 4 THEN Sources(found) ELSE <<DirectLabel(t, local)>>]

\* the prompt query_rag builds on path t
PromptFor(t, local, found, question) ==
    IF t = 4
        THEN IF local THEN LocalContextPrompt(Context(found), question)
                      ELSE HostedContextPrompt(Context(found), question)
        ELSE BarePrompt(question)

\* where query_rag goes to reach the backend the request selects
BackendStep(model) == IF IsLocal(model) THEN "get_local_model" ELSE "hosted"

\* ------------------------------------------------------ local backend

\* the prompt LocalChatModel.invoke hands to the model
PromptText(module, text) ==
    IF module = "models.local.local_llm"
        THEN Budget(text, DefaultMaxInputLength)
        ELSE text

\* the content LocalChatModel.invoke returns for the decoded output
Generated(module, prompt_text, full_response) ==
    IF module = "models.local.local_llm"
        THEN CleanResponse(Extracted(prompt_text, full_response))
        ELSE Extracted(prompt_text, full_response)

\* the content LocalChatModel.invoke returns when generation raises
GenerationError(module, message) ==
    IF module = "models.local.local_llm"
        THEN ErrGenPrefix \o message
        ELSE ErrSimplePrefix \o message

\* the serial number of the next LocalChatModel constructed
NextInstance == built[ModelLocalGpt2] + built[ModelLocalDistilGpt2] + 1

\* local_models[model_name] = instance
Put(cache, key, value) ==
    [x \in DOMAIN cache \cup {key} |-> IF x = key THEN value ELSE cache[x]]

\* calls that run on threads of their own and interleave freely
MayProceedThreaded(q) == TRUE

\* query_rag is a coroutine without an await: the event loop runs one call
\* from its start to its return before it starts another
MayProceed(q) == loop = q \/ (loop = 0 /\ pc[q] = "pending")

\* ------------------------------------------------------------ actions

\* a client posts a QueryRequest to /query
Submit(q) ==
    /\ pc[q] = "idle"
    /\ issued < MaxRequests
    /\ \E question \in Questions, k \in 1..MaxK, model \in Models :
           req' = [req EXCEPT ![q] = [question |-> question, k |-> k, model |-> model]]
    /\ pc' = [pc EXCEPT ![q] = "pending"]
    /\ issued' = issued + 1
    /\ UNCHANGED <<db, local_models, localModule, built, raised, loop>>
    /\ UNCHANGED <<vector_db, docs, tier, prompt, llm, cacheHit, response, failure,
                   searchCalls, backendCalls>>
    /\ UNCHANGED pureVars

\* the event loop starts the query_rag call of a pending request
Dispatch(q) ==
    /\ pc[q] = "pending"
    /\ MayProceed(q)
    /\ loop' = q
    /\ pc' = [pc EXCEPT ![q] = "get_vector_db"]
    /\ UNCHANGED <<db, local_models, localModule, built, raised, issued>>
    /\ UNCHANGED <<req, vector_db, docs, tier, prompt, llm, cacheHit, response, failure,
                   searchCalls, backendCalls>>
    /\ UNCHANGED pureVars

\* a get_vector_db that does not try again once the construction has raised
GetVectorDbSticky(q) ==
    /\ pc[q] = "get_vector_db"
    /\ MayProceed(q)
    /\ \E constructed \in BOOLEAN :
           LET handle == IF db # "None" THEN db
                         ELSE IF constructed /\ ~raised.db THEN "Chroma" ELSE "None"
           IN  /\ db' = handle
               /\ vector_db' = [vector_db EXCEPT ![q] = handle]
               /\ IF handle = "None"
                      THEN /\ tier' = [tier EXCEPT ![q] = 1]
                           /\ prompt' = [prompt EXCEPT ![q] =
                                  PromptFor(1, IsLocal(req[q].model), <<>>, req[q].question)]
                           /\ pc' = [pc EXCEPT ![q] = BackendStep(req[q].model)]
                      ELSE /\ pc' = [pc EXCEPT ![q] = "search"]
                           /\ UNCHANGED <<tier, prompt>>
               /\ raised' = [raised EXCEPT !.db = @ \/ (db = "None" /\ handle = "None")]
    /\ UNCHANGED <<local_models, localModule, built, loop, issued>>
    /\ UNCHANGED <<req, docs, llm, cacheHit, response, failure, searchCalls, backendCalls>>
    /\ UNCHANGED pureVars

\* vector_db = get_vector_db(), and the branch on None
GetVectorDb(q) ==
    /\ pc[q] = "get_vector_db"
    /\ MayProceed(q)
    /\ \E constructed \in BOOLEAN :
           LET handle == IF db # "None" THEN db
                         ELSE IF constructed THEN "Chroma" ELSE "None"
           IN  /\ db' = handle
               /\ vector_db' = [vector_db EXCEPT ![q] = handle]
               /\ IF handle = "None"
                      THEN /\ tier' = [tier EXCEPT ![q] = 1]
                           /\ prompt' = [prompt EXCEPT ![q] =
                                  PromptFor(1, IsLocal(req[q].model), <<>>, req[q].question)]
                           /\ pc' = [pc EXCEPT ![q] = BackendStep(req[q].model)]
                      ELSE /\ pc' = [pc EXCEPT ![q] = "search"]
                           /\ UNCHANGED <<tier, prompt>>
               /\ raised' = [raised EXCEPT !.db = @ \/ (db = "None" /\ handle = "None")]
    /\ UNCHANGED <<local_models, localModule, built, loop, issued>>
    /\ UNCHANGED <<req, docs, llm, cacheHit, response, failure, searchCalls, backendCalls>>
    /\ UNCHANGED pureVars

\* a search failure that falls through to the direct answer
SearchRaisesFallsThrough(q) ==
    /\ pc[q] = "search"
    /\ MayProceed(q)
    /\ searchCalls' = [searchCalls EXCEPT ![q] = @ + 1]
    /\ failure' = [failure EXCEPT ![q] = "search"]
    /\ tier' = [tier EXCEPT ![q] = 2]
    /\ prompt' = [prompt EXCEPT ![q] =
           PromptFor(2, IsLocal(req[q].model), <<>>, req[q].question)]
    /\ pc' = [pc EXCEPT ![q] = BackendStep(req[q].model)]
    /\ UNCHANGED shared
    /\ UNCHANGED <<req, vector_db, docs, llm, cacheHit, response, backendCalls>>
    /\ UNCHANGED pureVars

\* docs = vector_db.similarity_search(req.question, k=req.k) raises
SearchRaises(q) ==
    /\ pc[q] = "search"
    /\ MayProceed(q)
    /\ \E message \in Messages :
           response' = [response EXCEPT ![q] = ErrorResponse(ErrSearchPrefix, message)]
    /\ searchCalls' = [searchCalls EXCEPT ![q] = @ + 1]
    /\ failure' = [failure EXCEPT ![q] = "search"]
    /\ tier' = [tier EXCEPT ![q] = 3]
    /\ pc' = [pc EXCEPT ![q] = "respond"]
    /\ UNCHANGED shared
    /\ UNCHANGED <<req, vector_db, docs, prompt, llm, cacheHit, backendCalls>>
    /\ UNCHANGED pureVars

\* docs = vector_db.similarity_search(req.question, k=req.k) returns
SearchReturns(q) ==
    /\ pc[q] = "search"
    /\ MayProceed(q)
    /\ \E found \in SearchResults(req[q].k) :
           LET t == IF found = <<>> THEN 2 ELSE 4
           IN  /\ docs' = [docs EXCEPT ![q] = found]
               /\ tier' = [tier EXCEPT ![q] = t]
               /\ prompt' = [prompt EXCEPT ![q] =
                      PromptFor(t, IsLocal(req[q].model), found, req[q].question)]
    /\ searchCalls' = [searchCalls EXCEPT ![q] = @ + 1]
    /\ pc' = [pc EXCEPT ![q] = BackendStep(req[q].model)]
    /\ UNCHANGED shared
    /\ UNCHANGED <<req, vector_db, llm, cacheHit, response, failure, backendCalls>>
    /\ UNCHANGED pureVars

\* a get_local_model that constructs whatever name it is given
GetLocalModelBuildsUnknown(q) ==
    /\ pc[q] = "get_local_model"
    /\ MayProceed(q)
    /\ IF req[q].model \in DOMAIN local_models
           THEN /\ llm' = [llm EXCEPT ![q] = local_models[req[q].model]]
                /\ cacheHit' = [cacheHit EXCEPT ![q] = TRUE]
                /\ pc' = [pc EXCEPT ![q] = "invoke"]
           ELSE /\ pc' = [pc EXCEPT ![q] = "create"]
                /\ UNCHANGED <<llm, cacheHit>>
    /\ UNCHANGED shared
    /\ UNCHANGED <<req, vector_db, docs, tier, prompt, response, failure, searchCalls,
                   backendCalls>>
    /\ UNCHANGED pureVars

\* a get_local_model that never looks into the cache
GetLocalModelNoCache(q) ==
    /\ pc[q] = "get_local_model"
    /\ MayProceed(q)
    /\ IF req[q].model \in KnownLocalModels
           THEN /\ pc' = [pc EXCEPT ![q] = "create"]
                /\ UNCHANGED <<response, failure>>
           ELSE /\ response' = [response EXCEPT ![q] =
                       ErrorResponse(ErrLocalPrefix, ErrUnknownPrefix \o req[q].model)]
                /\ failure' = [failure EXCEPT ![q] = "unknown"]
                /\ pc' = [pc EXCEPT ![q] = "respond"]
    /\ UNCHANGED shared
    /\ UNCHANGED <<req, vector_db, docs, tier, prompt, llm, cacheHit, searchCalls,
                   backendCalls>>
    /\ UNCHANGED pureVars

\* get_local_model: the cache lookup, and the ValueError of an unknown name
GetLocalModel(q) ==
    /\ pc[q] = "get_local_model"
    /\ MayProceed(q)
    /\ IF req[q].model \in DOMAIN local_models
           THEN /\ llm' = [llm EXCEPT ![q] = local_models[req[q].model]]
                /\ cacheHit' = [cacheHit EXCEPT ![q] = TRUE]
                /\ pc' = [pc EXCEPT ![q] = "invoke"]
                /\ UNCHANGED <<response, failure>>
           ELSE IF req[q].model \in KnownLocalModels
           THEN /\ pc' = [pc EXCEPT ![q] = "create"]
                /\ UNCHANGED <<llm, cacheHit, response, failure>>
           ELSE /\ response' = [response EXCEPT ![q] =
                       ErrorResponse(ErrLocalPrefix, ErrUnknownPrefix \o req[q].model)]
                /\ failure' = [failure EXCEPT ![q] = "unknown"]
                /\ pc' = [pc EXCEPT ![q] = "respond"]
                /\ UNCHANGED <<llm, cacheHit>>
    /\ UNCHANGED shared
    /\ UNCHANGED <<req, vector_db, docs, tier, prompt, searchCalls, backendCalls>>
    /\ UNCHANGED pureVars

\* a construction that raises and leaves an instance in the cache
CreateRaisesCachesInstance(q) ==
    /\ pc[q] = "create"
    /\ MayProceed(q)
    /\ \E message \in Messages :
           response' = [response EXCEPT ![q] = ErrorResponse(ErrLocalPrefix, message)]
    /\ failure' = [failure EXCEPT ![q] = "load"]
    /\ pc' = [pc EXCEPT ![q] = "respond"]
    /\ raised' = [raised EXCEPT !.models = @ \cup {req[q].model}]
    /\ local_models' = Put(local_models, req[q].model, NextInstance)
    /\ UNCHANGED <<db, localModule, built, loop, issued>>
    /\ UNCHANGED <<req, vector_db, docs, tier, prompt, llm, cacheHit, searchCalls, backendCalls>>
    /\ UNCHANGED pureVars

\* get_local_model: create_local_chat_model raises while loading
CreateRaises(q) ==
    /\ pc[q] = "create"
    /\ MayProceed(q)
    /\ \E message \in Messages :
           response' = [response EXCEPT ![q] = ErrorResponse(ErrLocalPrefix, message)]
    /\ failure' = [failure EXCEPT ![q] = "load"]
    /\ pc' = [pc EXCEPT ![q] = "respond"]
    /\ raised' = [raised EXCEPT !.models = @ \cup {req[q].model}]
    /\ UNCHANGED <<db, local_models, localModule, built, loop, issued>>
    /\ UNCHANGED <<req, vector_db, docs, tier, prompt, llm, cacheHit, searchCalls, backendCalls>>
    /\ UNCHANGED pureVars

\* get_local_model: create_local_chat_model returns and the instance is stored
CreateReturns(q) ==
    /\ pc[q] = "create"
    /\ MayProceed(q)
    /\ local_models' = Put(local_models, req[q].model, NextInstance)
    /\ built' = [built EXCEPT ![req[q].model] = @ + 1]
    /\ llm' = [llm EXCEPT ![q] = NextInstance]
    /\ pc' = [pc EXCEPT ![q] = "invoke"]
    /\ UNCHANGED cacheHit
    /\ UNCHANGED <<db, localModule, raised, loop, issued>>
    /\ UNCHANGED <<req, vector_db, docs, tier, prompt, response, failure,
                   searchCalls, backendCalls>>
    /\ UNCHANGED pureVars

\* result = llm.invoke(prompt): generation raises inside invoke, which
\* returns the error text as content
InvokeLocalRaises(q) ==
    /\ pc[q] = "invoke"
    /\ MayProceed(q)
    /\ \E message \in Messages :
           response' = [response EXCEPT ![q] =
               AnswerResponse(tier[q], TRUE, docs[q], GenerationError(localModule, message))]
    /\ failure' = [failure EXCEPT ![q] = "generation"]
    /\ backendCalls' = [backendCalls EXCEPT ![q] = @ + 1]
    /\ pc' = [pc EXCEPT ![q] = "respond"]
    /\ UNCHANGED shared
    /\ UNCHANGED <<req, vector_db, docs, tier, prompt, llm, cacheHit, searchCalls>>
    /\ UNCHANGED pureVars

\* result = llm.invoke(prompt): generation returns
InvokeLocalReturns(q) ==
    /\ pc[q] = "invoke"
    /\ MayProceed(q)
    /\ LET prompt_text == PromptText(localModule, prompt[q])
       IN  \E full_response \in RawOutputs(prompt_text) :
               response' = [response EXCEPT ![q] =
                   AnswerResponse(tier[q], TRUE, docs[q],
                                  Generated(localModule, prompt_text, full_response))]
    /\ backendCalls' = [backendCalls EXCEPT ![q] = @ + 1]
    /\ pc' = [pc EXCEPT ![q] = "respond"]
    /\ UNCHANGED shared
    /\ UNCHANGED <<req, vector_db, docs, tier, prompt, llm, cacheHit, failure, searchCalls>>
    /\ UNCHANGED pureVars

\* a hosted failure that is tried once more
HostedRaisesRetries(q) ==
    /\ pc[q] = "hosted"
    /\ MayProceed(q)
    /\ backendCalls[q] < 2
    /\ backendCalls' = [backendCalls EXCEPT ![q] = @ + 1]
    /\ UNCHANGED shared
    /\ UNCHANGED <<pc, req, vector_db, docs, tier, prompt, llm, cacheHit, response,
                   failure, searchCalls>>
    /\ UNCHANGED pureVars

\* client.chat.completions.create raises
HostedRaises(q) ==
    /\ pc[q] = "hosted"
    /\ MayProceed(q)
    /\ \E message \in Messages :
           response' = [response EXCEPT ![q] = ErrorResponse(ErrHostedPrefix, message)]
    /\ failure' = [failure EXCEPT ![q] = "generation"]
    /\ backendCalls' = [backendCalls EXCEPT ![q] = @ + 1]
    /\ pc' = [pc EXCEPT ![q] = "respond"]
    /\ UNCHANGED shared
    /\ UNCHANGED <<req, vector_db, docs, tier, prompt, llm, cacheHit, searchCalls>>
    /\ UNCHANGED pureVars

\* client.chat.completions.create returns
HostedReturns(q) ==
    /\ pc[q] = "hosted"
    /\ MayProceed(q)
    /\ \E content \in HostedOutputs :
           response' = [response EXCEPT ![q] =
               AnswerResponse(tier[q], FALSE, docs[q], content)]
    /\ backendCalls' = [backendCalls EXCEPT ![q] = @ + 1]
    /\ pc' = [pc EXCEPT ![q] = "respond"]
    /\ UNCHANGED shared
    /\ UNCHANGED <<req, vector_db, docs, tier, prompt, llm, cacheHit, failure, searchCalls>>
    /\ UNCHANGED pureVars

\* query_rag returns its QueryResponse; the locals of the call are gone
Return(q) ==
    /\ pc[q] = "respond"
    /\ MayProceed(q)
    /\ loop' = 0
    /\ pc' = [pc EXCEPT ![q] = "idle"]
    /\ req' = [req EXCEPT ![q] = NoRequest]
    /\ vector_db' = [vector_db EXCEPT ![q] = "None"]
    /\ docs' = [docs EXCEPT ![q] = <<>>]
    /\ tier' = [tier EXCEPT ![q] = 0]
    /\ prompt' = [prompt EXCEPT ![q] = <<>>]
    /\ llm' = [llm EXCEPT ![q] = 0]
    /\ cacheHit' = [cacheHit EXCEPT ![q] = FALSE]
    /\ response' = [response EXCEPT ![q] = NoResponse]
    /\ failure' = [failure EXCEPT ![q] = "none"]
    /\ searchCalls' = [searchCalls EXCEPT ![q] = 0]
    /\ backendCalls' = [backendCalls EXCEPT ![q] = 0]
    /\ UNCHANGED <<db, local_models, localModule, built, raised, issued>>
    /\ UNCHANGED pureVars

\* --------------------------------------------------- specifications

\* the module globals and the clients before any request
InitResolver ==
    /\ db = "None"
    /\ local_models = <<>>
    /\ built = [m \in KnownLocalModels |-> 0]
    /\ raised = [db |-> FALSE, models |-> {}]
    /\ loop = 0
    /\ issued = 0
    /\ pc = [q \in Clients |-> "idle"]
    /\ req = [q \in Clients |-> NoRequest]
    /\ vector_db = [q \in Clients |-> "None"]
    /\ docs = [q \in Clients |-> <<>>]
    /\ tier = [q \in Clients |-> 0]
    /\ prompt = [q \in Clients |-> <<>>]
    /\ llm = [q \in Clients |-> 0]
    /\ cacheHit = [q \in Clients |-> FALSE]
    /\ response = [q \in Clients |-> NoResponse]
    /\ failure = [q \in Clients |-> "none"]
    /\ searchCalls = [q \in Clients |-> 0]
    /\ backendCalls = [q \in Clients |-> 0]

\* no stand-alone run of the truncation step
BudgetOff ==
    /\ bPc = "off"
    /\ bPrompt = <<>>
    /\ bMax = 0
    /\ bOut = <<>>
    /\ bStart = -1
    /\ bQuestion = <<>>

\* no stand-alone run of the output clean-up
CleanOff ==
    /\ sPc = "off"
    /\ sPrompt = <<>>
    /\ sTrace = <<>>

Init ==
    /\ InitResolver
    /\ localModule \in LocalModules
    /\ BudgetOff
    /\ CleanOff

Next ==
    \E q \in Clients :
        \/ Submit(q)
        \/ Dispatch(q)
        \/ GetVectorDb(q)
        \/ SearchRaises(q)
        \/ SearchReturns(q)
        \/ GetLocalModel(q)
        \/ CreateRaises(q)
        \/ CreateReturns(q)
        \/ InvokeLocalRaises(q)
        \/ InvokeLocalReturns(q)
        \/ HostedRaises(q)
        \/ HostedReturns(q)
        \/ Return(q)

Spec == Init /\ [][Next]_vars

\* the truncation step of LocalChatModel.invoke on its own, over prompts made
\* of padding, up to two markers and a question tail
PadSizes == {0, 1} \cup {PadStep * i : i \in 1..MaxPads}

MarkerChoices == {<<>>, MarkerQuestion, MarkerQ}

BudgetPrompts ==
    {Fill(a, "c") \o m1 \o Fill(b, "q") \o m2 \o Fill(c, "t") :
        a \in PadSizes, b \in PadSizes, c \in PadSizes,
        m1 \in MarkerChoices, m2 \in MarkerChoices}

BudgetMaxima == {SmallMaxInputLength, DefaultMaxInputLength}

\* max_input_length is one of the maxima, or exactly the prompt's length
InitBudget ==
    /\ InitResolver
    /\ localModule = "models.local.local_llm"
    /\ bPc = "ready"
    /\ bPrompt \in BudgetPrompts
    /\ bMax \in BudgetMaxima \cup {Len(bPrompt)}
    /\ bOut = <<>>
    /\ bStart = -1
    /\ bQuestion = <<>>
    /\ CleanOff

\* lines 71-93 of LocalChatModel.invoke applied to the prompt
ApplyBudget ==
    /\ bPc = "ready"
    /\ bOut' = Budget(bPrompt, bMax)
    /\ bStart' = IF Len(bPrompt) > bMax THEN QuestionStart(bPrompt) ELSE -1
    /\ bPc' = "done"
    /\ UNCHANGED <<bPrompt, bMax, bQuestion>>
    /\ UNCHANGED shared
    /\ UNCHANGED locals
    /\ UNCHANGED cleanVars

NextBudget == ApplyBudget

SpecBudget == InitBudget /\ [][NextBudget]_vars

\* the truncation step applied to the prompts query_rag builds for a local
\* model, over short and long questions and chunks
TemplateQuestions ==
    Questions \cup {<<"I", "s", " ", "Q", ":", "?">>}
        \cup {Fill(n, "x") \o <<"?">> : n \in {LongQuestionLen \div 2, LongQuestionLen}}

TemplateChunks ==
    Chunks \cup {[page_content |-> Fill(LongChunkLen, "z"), metadata |-> {}]}

TemplateResults == UNION {[1..n -> TemplateChunks] : n \in 0..MaxK}

InitTemplate ==
    /\ InitResolver
    /\ localModule = "models.local.local_llm"
    /\ bPc = "ready"
    /\ bQuestion \in TemplateQuestions
    /\ \E found \in TemplateResults, t \in {1, 2, 4} :
           /\ (t = 4) <=> (found # <<>>)
           /\ bPrompt = PromptFor(t, TRUE, found, bQuestion)
    /\ bMax = DefaultMaxInputLength
    /\ bOut = <<>>
    /\ bStart = -1
    /\ CleanOff

SpecTemplate == InitTemplate /\ [][NextBudget]_vars

\* the clean-up of LocalChatModel.invoke on its own, over outputs made of
\* short lines or of long sentences, with and without the prompt in front
CleanPrompts == {<<"Q", ":", " ", "W", "?">>}

LinePool ==
    { <<"A">>, <<"B">>, <<"C">>, <<>>, <<" ", "A", " ">>,
      <<"Q", ":", " ", "x">>, <<"Q", ":", " ", "z">>,
      <<"Q", "u", "e", "s", "t", "i", "o", "n", ":", " ", "y">> }

LineBodies ==
    {Join(<<"\n">>, ls) : ls \in UNION {[1..n -> LinePool] : n \in 1..MaxLines}}

SentenceLetters == <<"s", "t", "u", "v", "w">>

SentenceBodies ==
    {Join(<<".", " ">>, [i \in 1..k |-> Fill(n, SentenceLetters[i])]) \o end :
        k \in 1..MaxSentences, n \in {SentenceLen, 3 * SentenceLen},
        end \in {<<>>, <<".">>}}

\* k words " b" one after the other
TailWords(k) == [i \in 1..(2 * k) |-> IF i % 2 = 1 THEN " " ELSE "b"]

TailMarks == {<<>>, <<".">>, <<"!">>, <<"?">>}

\* a first word, a mark, more words, a second mark, at most one word more and
\* an ending
TailBodies ==
    {Fill(p, "a") \o m1 \o TailWords(k1) \o m2 \o TailWords(k2) \o end :
        p \in 0..MaxHead, m1 \in TailMarks, k1 \in 0..MaxTailWords,
        m2 \in TailMarks, k2 \in 0..1, end \in {<<>>, <<":">>}}

\* the decoded outputs for a prompt: the prompt, a space and a body, or a
\* continuation without the prompt in front
CleanOutputs(prompt_text) ==
    {prompt_text \o <<" ">> \o body :
        body \in LineBodies \cup SentenceBodies \cup TailBodies}
        \cup Continuations

InitClean ==
    /\ InitResolver
    /\ localModule = "models.local.local_llm"
    /\ BudgetOff
    /\ sPc = "ready"
    /\ sPrompt \in CleanPrompts
    /\ \E full_response \in CleanOutputs(sPrompt) : sTrace = <<full_response>>

\* lines 124-127 of LocalChatModel.invoke applied to the decoded output
ApplyClean ==
    /\ sPc = "ready"
    /\ sTrace' = CleanTrace(sPrompt, sTrace[1])
    /\ sPc' = "done"
    /\ UNCHANGED sPrompt
    /\ UNCHANGED shared
    /\ UNCHANGED locals
    /\ UNCHANGED budgetVars

NextClean == ApplyClean

SpecClean == InitClean /\ [][NextClean]_vars

\* ------------------------------------------------------------- claims

C2_BackendFailureIsErrorAnswer ==
    \A q \in Clients :
        (pc[q] = "respond" /\ failure[q] \in {"generation", "load"}) =>
            /\ StartsWith(response[q].answer, ErrorWord)
            /\ response[q].sources = <<"Error">>

\* C3 (as stated): every query_rag call that reaches its return carries a
\* QueryResponse, and every outcome in which a collaborator raised carries
\* the sources ["Error"].
C3_EveryFailureLabelledError ==
    \A q \in Clients :
        pc[q] = "respond" =>
            /\ response[q] # NoResponse
            /\ failure[q] # "none" => response[q].sources = <<"Error">>

\* C4 (as stated): with no retrieval index and a backend that answers, the
\* sources are exactly ["Direct response (no vector database)"].
C4_NoIndexLabelAsStated ==
    \A q \in Clients :
        (pc[q] = "respond" /\ tier[q] = 1 /\ failure[q] = "none") =>
            response[q].sources = <<"Direct response (no vector database)">>

\* C4 (amended): with no retrieval index and a backend that answers, the
\* sources are the one-element list that names the backend kind:
\* ["Direct OpenAI response (no vector database)"] for a hosted model and
\* ["Direct local model response (no vector database)"] for a local one.
C4_NoIndexLabel ==
    \A q \in Clients :
        (pc[q] = "respond" /\ vector_db[q] = "None" /\ failure[q] = "none") =>
            /\ tier[q] = 1
            /\ response[q].sources =
                   IF StartsWith(req[q].model, LocalPrefix)
                       THEN <<"Direct local model response (no vector database)">>
                       ELSE <<"Direct OpenAI response (no vector database)">>

\* C4 witness: a hosted answer given without a retrieval index.
C4_Witness ==
    \E q \in Clients :
        /\ pc[q] = "respond"
        /\ vector_db[q] = "None"
        /\ failure[q] = "none"
        /\ req[q].model = ModelGpt4oMini
        /\ response[q].answer \in HostedOutputs

\* C5 (as stated): when the search returns no chunk and the backend
\* answers, the sources are exactly ["Direct response (no relevant documents)"].
C5_EmptySearchLabelAsStated ==
    \A q \in Clients :
        (pc[q] = "respond" /\ tier[q] = 2 /\ failure[q] = "none") =>
            response[q].sources = <<"Direct response (no relevant documents)">>

\* C5 (amended): when the search returns no chunk and the backend answers,
\* the sources are the one-element list that names the backend kind:
\* ["Direct OpenAI response (no relevant documents)"] for a hosted model and
\* ["Direct local model response (no relevant documents)"] for a local one.
C5_EmptySearchLabel ==
    \A q \in Clients :
        (/\ pc[q] = "respond"
         /\ searchCalls[q] = 1
         /\ docs[q] = <<>>
         /\ failure[q] = "none") =>
            /\ tier[q] = 2
            /\ response[q].sources =
                   IF StartsWith(req[q].model, LocalPrefix)
                       THEN <<"Direct local model response (no relevant documents)">>
                       ELSE <<"Direct OpenAI response (no relevant documents)">>

\* C5 witness: a local answer given after a search that found nothing.
C5_Witness ==
    \E q \in Clients :
        /\ pc[q] = "respond"
        /\ vector_db[q] = "Chroma"
        /\ searchCalls[q] = 1
        /\ docs[q] = <<>>
        /\ failure[q] = "none"
        /\ req[q].model = ModelLocalGpt2
        /\ backendCalls[q] = 1

RECURSIVE ChunkOffset(_, _)
\* where the i-th chunk's text starts in a context that separates the
\* chunks by a blank line
ChunkOffset(found, i) ==
    IF i = 1 THEN 0
    ELSE ChunkOffset(found, i - 1) + Len(found[i - 1].page_content) + 2

\* C6: when the search returns chunks and the backend answers, the prompt
\* holds the chunk texts in the returned order with a blank line between
\* them, and the sources are the chunks' labels in that order, one per
\* chunk, "Unknown" for a chunk without a label.
C6_RetrievalOrderKept ==
    \A q \in Clients :
        (pc[q] = "respond" /\ tier[q] = 4 /\ failure[q] = "none") =>
            LET found == docs[q]
                n     == Len(found)
                local == StartsWith(req[q].model, LocalPrefix)
                head  == IF local THEN LocalCtxHead ELSE HostedCtxHead
                mid   == IF local THEN LocalCtxMid ELSE HostedCtxMid
                start(i) == Len(head) + ChunkOffset(found, i)
                stop(i)  == start(i) + Len(found[i].page_content)
            IN  /\ n >= 1
                /\ Len(response[q].sources) = n
                /\ \A i \in 1..n :
                       \/ <<"source", response[q].sources[i]>> \in found[i].metadata
                       \/ /\ found[i].metadata = {}
                          /\ response[q].sources[i] = "Unknown"
                /\ StartsWith(prompt[q], head)
                /\ \A i \in 1..n :
                       Slice(prompt[q], start(i), stop(i)) = found[i].page_content
                /\ \A i \in 1..(n - 1) :
                       Slice(prompt[q], stop(i), stop(i) + 2) = <<"\n", "\n">>
                /\ Slice(prompt[q], stop(n), stop(n) + Len(mid)) = mid

\* C6 witness: an answer over two chunks, the first without a label and the
\* second labelled, in an order no sort by label or text would give.
C6_Witness ==
    \E q \in Clients :
        /\ pc[q] = "respond"
        /\ tier[q] = 4
        /\ failure[q] = "none"
        /\ Len(docs[q]) = 2
        /\ docs[q][1].metadata = {}
        /\ docs[q][2].metadata = {<<"source", "doc1.pdf">>}
        /\ response[q].sources = <<"Unknown", "doc1.pdf">>

\* C7: when similarity_search raises, the call goes straight to its return
\* with sources ["Error"] and an answer that starts with "Error" and ends
\* with the failure message; the search was called once, no backend was
\* invoked, no local model was obtained.
C7_SearchFailureEndsQuery ==
    \A q \in Clients :
        failure[q] = "search" =>
            /\ pc[q] = "respond"
            /\ response[q].sources = <<"Error">>
            /\ \E message \in Messages :
                   response[q].answer = ErrSearchPrefix \o message
            /\ StartsWith(response[q].answer, ErrorWord)
            /\ searchCalls[q] = 1
            /\ backendCalls[q] = 0
            /\ llm[q] = 0

\* C7 witness: a call about to return the answer of a failed search.
C7_Witness ==
    \E q \in Clients :
        /\ pc[q] = "respond"
        /\ failure[q] = "search"
        /\ vector_db[q] = "Chroma"
        /\ response[q].sources = <<"Error">>

\* C8 (as stated): every call that reaches its return has invoked a
\* generation backend exactly once.
C8_ExactlyOneInvocation ==
    \A q \in Clients : pc[q] = "respond" => backendCalls[q] = 1

\* C8 (amended): a call never invokes a generation backend more than once;
\* at its return it has invoked one exactly once, unless the search raised,
\* the local identifier was unknown or the local model failed to load, and
\* then it has invoked none.
C8_AtMostOneInvocation ==
    \A q \in Clients :
        /\ backendCalls[q] <= 1
        /\ pc[q] = "respond" =>
               backendCalls[q] =
                   IF failure[q] \in {"search", "unknown", "load"} THEN 0 ELSE 1

\* C8 witness: a call over retrieved chunks that invoked its hosted backend
\* once, and that invocation raised.
C8_Witness ==
    \E q \in Clients :
        /\ pc[q] = "respond"
        /\ tier[q] = 4
        /\ failure[q] = "generation"
        /\ req[q].model = ModelGpt4oMini
        /\ backendCalls[q] = 1

\* C9: over the requests served, create_local_chat_model returns at most
\* one instance per identifier, that instance is the one the cache holds,
\* every call that holds a local model holds the cached instance of its
\* identifier, and no call is constructing an identifier once it is cached.
C9_OneInstancePerIdentifier ==
    /\ \A m \in KnownLocalModels :
           /\ built[m] <= 1
           /\ (m \in DOMAIN local_models) <=> (built[m] = 1)
    /\ DOMAIN local_models \subseteq KnownLocalModels
    /\ \A q \in Clients :
           /\ llm[q] # 0 =>
                  /\ req[q].model \in DOMAIN local_models
                  /\ llm[q] = local_models[req[q].model]
           /\ pc[q] = "create" => req[q].model \notin DOMAIN local_models

\* C9 witness: a later request is about to invoke the instance an earlier
\* request constructed.
C9_Witness ==
    \E q \in Clients :
        /\ pc[q] = "invoke"
        /\ cacheHit[q]
        /\ issued >= 2
        /\ built[req[q].model] = 1
        /\ llm[q] = local_models[req[q].model]

\* C10: while several requests with the same local identifier are open, the
\* constructions of that identifier in progress and completed are together
\* at most one.
C10_OneConstructionUnderConcurrency ==
    \A m \in KnownLocalModels :
        Cardinality({q \in Clients : pc[q] = "create" /\ req[q].model = m})
            + built[m] <= 1

\* C10 witness: two requests with the same local identifier are open before
\* it is cached; one is constructing the instance, the other still waits.
C10_Witness ==
    \E q1 \in Clients, q2 \in Clients :
        /\ q1 # q2
        /\ req[q1].model = req[q2].model
        /\ req[q1].model \in KnownLocalModels
        /\ pc[q1] = "create"
        /\ pc[q2] = "pending"
        /\ built[req[q1].model] = 0

\* C11 (as stated): while one call is at its backend invocation, the call of
\* another pending request can be started.
C11_InvocationsRunConcurrently ==
    \A q1 \in Clients, q2 \in Clients :
        (/\ q1 # q2
         /\ pc[q1] \in {"invoke", "hosted"}
         /\ pc[q2] = "pending") => MayProceed(q2)

\* C12 (as stated): an unknown local identifier never reaches query time: no
\* call fails on it and none answers it.
C12_UnknownIdentifierNeverAtQueryTime ==
    \A q \in Clients :
        /\ failure[q] # "unknown"
        /\ pc[q] = "respond" =>
               ~(IsLocal(req[q].model) /\ req[q].model \notin KnownLocalModels)

\* C12 (amended): an unknown local identifier is found at query time, by
\* get_local_model: the call goes to its return with sources ["Error"] and
\* the answer "Error with local model: Unknown local model: <identifier>";
\* nothing is constructed or cached for it and no backend is invoked.
C12_UnknownIdentifierIsErrorAnswer ==
    \A q \in Clients :
        (StartsWith(req[q].model, LocalPrefix)
            /\ req[q].model \notin {ModelLocalGpt2, ModelLocalDistilGpt2}) =>
            /\ pc[q] \notin {"create", "invoke", "hosted"}
            /\ req[q].model \notin DOMAIN local_models
            /\ llm[q] = 0
            /\ backendCalls[q] = 0
            /\ (pc[q] = "respond" /\ failure[q] # "search") =>
                   /\ failure[q] = "unknown"
                   /\ response[q].sources = <<"Error">>
                   /\ response[q].answer =
                          ErrLocalPrefix \o ErrUnknownPrefix \o req[q].model

\* C12 witness: a call about to return the Error answer for "local-llama".
C12_Witness ==
    \E q \in Clients :
        /\ pc[q] = "respond"
        /\ req[q].model = ModelLocalOther
        /\ failure[q] = "unknown"
        /\ response[q].sources = <<"Error">>

\* C13: a prompt no longer than max_input_length, one of exactly that length
\* included, is handed on unchanged.
C13_ShortPromptUnchanged ==
    (bPc = "done" /\ Len(bPrompt) <= bMax) => bOut = bPrompt

\* C13 witness: a non-empty prompt of exactly max_input_length, handed on
\* unchanged.
C13_Witness ==
    /\ bPc = "done"
    /\ Len(bPrompt) = bMax
    /\ bMax > 0
    /\ bOut = bPrompt

\* C17 (as stated): for an over-long prompt, question_start is the highest
\* index at which "Question:" or "Q:" occurs, -1 when neither does.
C17_RightmostOfEitherMarker ==
    (bPc = "done" /\ Len(bPrompt) > bMax) =>
        bStart = Max(Occurrences(bPrompt, MarkerQuestion)
                         \cup Occurrences(bPrompt, MarkerQ) \cup {-1})

\* C17 (amended): for an over-long prompt, question_start is the last
\* occurrence of "Question:" when "Question:" occurs at all, even when a
\* "Q:" occurs after it; the last occurrence of "Q:" when only "Q:" occurs;
\* -1 when neither occurs.
C17_QuestionMarkerFirst ==
    (bPc = "done" /\ Len(bPrompt) > bMax) =>
        LET long  == Occurrences(bPrompt, MarkerQuestion)
            short == Occurrences(bPrompt, MarkerQ)
        IN  /\ long # {} => (bStart \in long /\ \A i \in long : i <= bStart)
            /\ (long = {} /\ short # {}) =>
                   (bStart \in short /\ \A i \in short : i <= bStart)
            /\ (long = {} /\ short = {}) => bStart = -1

\* C17 witness: an over-long prompt in which a "Q:" occurs after the last
\* "Question:", and question_start is at the "Question:".
C17_Witness ==
    /\ bPc = "done"
    /\ Len(bPrompt) > bMax
    /\ bStart \in Occurrences(bPrompt, MarkerQuestion)
    /\ \E i \in Occurrences(bPrompt, MarkerQ) : i > bStart

\* C18: for an over-long prompt: without a marker, or with question_start at
\* most half of max_input_length, the result is the first max_input_length
\* characters and "..."; otherwise, with context_budget = max_input_length
\* - (len(prompt) - question_start), it is the first context_budget
\* characters, "..." and the prompt from question_start when context_budget
\* > 50, and the prompt from question_start alone when context_budget <= 50.
C18_TruncationCases ==
    (bPc = "done" /\ Len(bPrompt) > bMax) =>
        LET budget == bMax - (Len(bPrompt) - bStart)
            head(n) == [i \in 1..n |-> bPrompt[i]]
            tail    == [i \in 1..(Len(bPrompt) - bStart) |-> bPrompt[bStart + i]]
        IN  IF bStart = -1 \/ 2 * bStart <= bMax
                THEN bOut = head(bMax) \o <<".", ".", ".">>
            ELSE IF budget > 50
                THEN bOut = head(budget) \o <<".", ".", ".">> \o tail
            ELSE bOut = tail

\* C18 witness: an over-long prompt whose context budget is exactly 50, cut
\* down to the question alone.
C18_Witness ==
    /\ bPc = "done"
    /\ Len(bPrompt) > bMax
    /\ 2 * bStart > bMax
    /\ bMax - (Len(bPrompt) - bStart) = 50
    /\ Len(bOut) = Len(bPrompt) - bStart

\* C16 (as stated): every over-long prompt query_rag builds for a local
\* model has a recognised marker in front of the question, with the question
\* after the last such marker, and the prompt handed to the tokenizer holds
\* the whole question.
C16_TemplatesKeepQuestion ==
    (bPc = "done" /\ Len(bPrompt) > bMax) =>
        /\ QuestionStart(bPrompt) # -1
        /\ Contains(From(bPrompt, QuestionStart(bPrompt)), bQuestion)
        /\ Contains(bOut, bQuestion)

\* the text "A\nB\nA\nC" and what the claim says is left of it
LinesABAC == <<"A", "\n", "B", "\n", "A", "\n", "C">>

LinesAB == <<"A", "\n", "B">>

\* C14: the removal of repeated lines emits, in order, each non-empty line the
\* first time it is seen, and emits nothing from the first line whose text was
\* already emitted: the result is the non-empty lines before the first
\* repetition, each of them once
C14_DedupStopsAtFirstRepetition ==
    sPc = "done" =>
        LET raw == Split(sTrace[2], <<"\n">>)
            L == [i \in 1..Len(raw) |-> Strip(raw[i])]
            repeats == {i \in 1..Len(L) :
                            L[i] # <<>> /\ \E j \in 1..(i - 1) : L[j] = L[i]}
            stop == IF repeats = {} THEN Len(L) + 1
                    ELSE CHOOSE i \in repeats : \A j \in repeats : i <= j
            NonEmpty(l) == l # <<>>
            kept == SelectSeq(SubSeq(L, 1, stop - 1), NonEmpty)
        IN  /\ sTrace[3] = Join(<<"\n">>, kept)
            /\ \A i, j \in 1..Len(kept) : kept[i] = kept[j] => i = j

\* C14 witness: the lines A, B, A, C have been cleaned and A, B are left
C14_Witness ==
    /\ sPc = "done"
    /\ sTrace[2] = LinesABAC
    /\ sTrace[3] = LinesAB

\* C15: when the text that reaches the length check is longer than 400
\* characters and splits on ". " into more than one segment, the output is
\* every segment but the last joined by ". " with a "." after it, and that is
\* the final result
C15_LongResultCutAtLastSentence ==
    sPc = "done" =>
        LET r == sTrace[4]
            sentences == Split(r, <<".", " ">>)
        IN  (Len(r) > MaxResponseLength /\ Len(sentences) > 1) =>
                /\ sTrace[5] = Join(<<".", " ">>, SubSeq(sentences, 1, Len(sentences) - 1))
                                   \o <<".">>
                /\ sTrace[5] = Slice(r, 0, RFind(r, <<".", " ">>) + 1)
                /\ sTrace[5][Len(sTrace[5])] = "."
                /\ sTrace[6] = sTrace[5]

\* C15 witness: three sentences of SentenceLen characters have been cleaned and
\* the first two are left
C15_Witness ==
    /\ sPc = "done"
    /\ Len(sTrace[4]) > MaxResponseLength
    /\ Len(Split(sTrace[4], <<".", " ">>)) = 3
    /\ sTrace[6] = Fill(SentenceLen, "s") \o <<".", " ">> \o Fill(SentenceLen, "t") \o <<".">>

\* C19: when "Question:" or "Q:" occurs more than once in the text left by the
\* removal of repeated lines, the clean-up keeps everything strictly before the
\* second occurrence of that marker, the first marker included
C19_KeptUpToSecondMarker ==
    sPc = "done" =>
        LET d == sTrace[3]
            marker == IF Count(d, MarkerQuestion) > 1 THEN MarkerQuestion ELSE MarkerQ
            first == Find(d, marker)
            second == first + Len(marker) + Find(From(d, first + Len(marker)), marker)
        IN  Count(d, marker) > 1 =>
                /\ sTrace[4] = Strip(Slice(d, 0, second))
                /\ Contains(sTrace[4], marker)

\* C20: the first len(prompt) characters of the decoded output are dropped
\* only when the output begins with the prompt; otherwise no leading character
\* of the generated text is removed
C20_EchoStrippedOnlyWhenPresent ==
    sPc = "done" =>
        sTrace[2] = IF StartsWith(sTrace[1], sPrompt)
                        THEN Strip(From(sTrace[1], Len(sPrompt)))
                        ELSE Strip(sTrace[1])

\* C21: the removal of an incomplete tail cuts the text after the rightmost of
\* ".", "!" and "?" exactly when the text is not empty, has more than 3 words,
\* does not end in ".", "!", "?" or ":" and that mark's index is greater than
\* 40% of the text's length; in every other case the text is left unchanged
C21_TailCutExactlyPastFortyPercent ==
    sPc = "done" =>
        LET r == sTrace[5]
            marks == {i \in 1..Len(r) : r[i] \in {".", "!", "?"}}
            last == IF marks = {} THEN -1
                    ELSE (CHOOSE i \in marks : \A j \in marks : j <= i) - 1
            starts == {i \in 1..Len(r) :
                          /\ r[i] \notin Whitespace
                          /\ (i = 1 \/ r[i - 1] \in Whitespace)}
            cut == /\ r # <<>>
                   /\ Cardinality(starts) > 3
                   /\ r[Len(r)] \notin {".", "!", "?", ":"}
                   /\ 10 * last > 4 * Len(r)
        IN  sTrace[6] = IF cut THEN SubSeq(r, 1, last + 1) ELSE r

\* C21 witness: a text of five words whose last mark is at index 7 of 16 has
\* been cut after the mark
C21_Witness ==
    /\ sPc = "done"
    /\ sTrace[5] = Fill(MaxHead, "a") \o <<".">> \o TailWords(MaxTailWords)
    /\ sTrace[6] = Fill(MaxHead, "a") \o <<".">>

\* C21 boundary: a text of five words whose last mark is at index 6 of 15,
\* exactly 40% of the length, has been left unchanged
C21_BoundaryWitness ==
    /\ sPc = "done"
    /\ sTrace[5] = Fill(6, "a") \o <<".">> \o TailWords(4)
    /\ sTrace[6] = sTrace[5]

\* C22: for every prompt and every max_input_length, the prompt handed to the
\* tokenizer is at most max_input_length plus the three characters of "..."
\* long
C22_TruncatedPromptBounded ==
    bPc = "done" => Len(bOut) <= bMax + Len(Ellipsis)

\* C23: in the branch of the truncation that keeps context (a marker found,
\* question_start > max_input_length // 2, context_budget > 50),
\* context_budget is less than question_start, the result is the prompt's
\* first context_budget characters, "..." and the prompt from question_start,
\* two stretches of the prompt that do not overlap, and the result is exactly
\* max_input_length + 3 characters long
C23_ContextBranchDisjointAndExact ==
    (bPc = "done" /\ Len(bPrompt) > bMax) =>
        LET context_budget == bMax - (Len(bPrompt) - bStart)
        IN  (bStart # -1 /\ bStart > bMax \div 2 /\ context_budget > 50) =>
                /\ context_budget < bStart
                /\ Len(bOut) = bMax + 3
                /\ \A i \in 1..context_budget : bOut[i] = bPrompt[i]
                /\ \A i \in 1..3 : bOut[context_budget + i] = "."
                /\ \A i \in 1..(Len(bPrompt) - bStart) :
                       bOut[context_budget + 3 + i] = bPrompt[bStart + i]
                /\ {i \in 1..context_budget : i > bStart} = {}

\* C23 witness: an over-long prompt truncated under the default
\* max_input_length with context kept in front of the question
C23_Witness ==
    /\ bPc = "done"
    /\ bMax = DefaultMaxInputLength
    /\ Len(bPrompt) > bMax
    /\ bStart > bMax \div 2
    /\ bMax - (Len(bPrompt) - bStart) > 50
    /\ Len(bOut) = bMax + 3
    /\ bOut # Slice(bPrompt, 0, bMax) \o Ellipsis

\* C24: the cache of local backends only grows: an identifier that is mapped
\* keeps its instance through every later step; the keys are among local-gpt2
\* and local-distilgpt2; a step in which the construction raises or the
\* identifier is unknown leaves the cache unchanged, with the identifier not
\* in it; and a query that finds a known identifier not in the cache goes on
\* to construct it, also after an earlier construction of it has raised
C24_CacheOnlyGrows ==
    /\ [](DOMAIN local_models \subseteq {ModelLocalGpt2, ModelLocalDistilGpt2})
    /\ [][/\ \A m \in DOMAIN local_models :
                 m \in DOMAIN local_models' /\ local_models'[m] = local_models[m]
          /\ \A q \in Clients :
                 (failure[q] = "none" /\ failure'[q] \in {"load", "unknown"}) =>
                     /\ local_models' = local_models
                     /\ req[q].model \notin DOMAIN local_models'
          /\ \A q \in Clients :
                 (/\ pc[q] = "get_local_model"
                  /\ pc'[q] # pc[q]
                  /\ req[q].model \in {ModelLocalGpt2, ModelLocalDistilGpt2}
                  /\ req[q].model \notin DOMAIN local_models) =>
                     pc'[q] = "create"]_vars

\* C24 witness: a query is constructing a local model whose construction
\* raised during an earlier query
C24_Witness ==
    \E q \in Clients :
        /\ pc[q] = "create"
        /\ req[q].model \in raised.models
        /\ req[q].model \notin DOMAIN local_models

\* C25: the index handle is unset until a get_vector_db step sets it; once
\* set it is never changed; a step in which the construction raises leaves it
\* unset and the query goes on without the index; and whenever a query calls
\* get_vector_db with the handle unset, also after an earlier construction has
\* raised, the construction is tried and can set the handle
C25_IndexHandleWriteOnce ==
    /\ [](\A q \in Clients :
              (pc[q] = "get_vector_db" /\ MayProceed(q) /\ db = "None") =>
                  ENABLED (GetVectorDb(q) /\ db' = "Chroma"))
    /\ [][/\ db # "None" => db' = db
          /\ db' # db => \E q \in Clients : pc[q] = "get_vector_db" /\ vector_db'[q] = db'
          /\ \A q \in Clients :
                 (pc[q] = "get_vector_db" /\ pc'[q] # pc[q]) =>
                     /\ vector_db'[q] = db'
                     /\ (db = "None" /\ db' = "None") =>
                            (raised'.db /\ tier'[q] = 1 /\ pc'[q] # "search")
                     /\ db' # "None" => (raised'.db = raised.db /\ pc'[q] = "search")]_vars

\* C25 witness: a query has the index handle although the construction raised
\* during an earlier query
C25_Witness ==
    \E q \in Clients :
        /\ pc[q] = "search"
        /\ vector_db[q] = "Chroma"
        /\ db = "Chroma"
        /\ raised.db

====
